---- MODULE Spec2Model ----
(***************************************************************************)
(* Land-cover change detection: the raster access layer                    *)
(* (rasterio_open_with_retry), the index computation engine                *)
(* (compute_indices), the analysis orchestrator (analyze_image), the       *)
(* dashboard script (app.py) and the downsampling tool's output profile    *)
(* (downsample_large_image).                                               *)
(***************************************************************************)
EXTENDS Integers, Sequences, FiniteSets, TLC

(***************************************************************************)
(* Bounds of the model.                                                    *)
(***************************************************************************)
\* pixel values of the generated one-pixel rasters range over MinPix..MaxPix
MaxPix == 1
\* widths and heights of the generated rasters range over 1..MaxDim
MaxDim == 3
\* requested window sizes range over 1..MaxWin (and the default)
MaxWin == 3
\* band counts of the generated rasters range over 0..MaxCount
MaxCount == 6
\* retries of a direct call of rasterio_open_with_retry range over 0..MaxRetries
MaxRetries == 4
\* scale factors of the downsampling tool range over 1..MaxScale
MaxScale == 3

(***************************************************************************)
(* Program constants.                                                      *)
(***************************************************************************)
DefaultRetries == 3
DefaultWindowSize == 512
NumBands == 5

MinPix == 0 - 1

Keys == <<"ndvi", "ndbi", "exg", "vari">>
KeySet == {"ndvi", "ndbi", "exg", "vari"}

\* Python's None and a present value, as a sequence of length 0 or 1
None == <<>>
Some(x) == <<x>>
IsNone(o) == o = <<>>
Val(o) == o[1]

(***************************************************************************)
(* float32 values: finite rationals n/d (d > 0, lowest terms), NaN, +-inf  *)
(* (n is the sign), and +-FLT_MAX ("big", n is the sign), which is what    *)
(* nan_to_num turns an infinity into.                                      *)
(***************************************************************************)
Abs(i) == IF i < 0 THEN 0 - i ELSE i
Sign(i) == IF i < 0 THEN 0 - 1 ELSE IF i > 0 THEN 1 ELSE 0

RECURSIVE GCD(_, _)
GCD(a, b) == IF b = 0 THEN a ELSE GCD(b, a % b)

NaN == [k |-> "nan", n |-> 0, d |-> 1]
Inf(s) == [k |-> "inf", n |-> s, d |-> 1]
Big(s) == [k |-> "big", n |-> s, d |-> 1]
Fin(n, d) ==
    LET s == IF d < 0 THEN 0 - 1 ELSE 1
        g == GCD(Abs(n), Abs(d))
    IN  [k |-> "fin", n |-> (s * n) \div g, d |-> (s * d) \div g]

IsNaN(a) == a.k = "nan"
IsFin(a) == a.k = "fin"

FNeg(a) == IF a.k = "nan" THEN a
           ELSE IF a.k = "fin" THEN Fin(0 - a.n, a.d)
           ELSE [a EXCEPT !.n = 0 - a.n]

\* a + b
FAdd(a, b) ==
    IF IsNaN(a) \/ IsNaN(b) THEN NaN
    ELSE IF IsFin(a) /\ IsFin(b) THEN Fin(a.n * b.d + b.n * a.d, a.d * b.d)
    ELSE IF IsFin(a) THEN Inf(b.n)
    ELSE IF IsFin(b) THEN Inf(a.n)
    ELSE IF a.n = b.n THEN Inf(a.n) ELSE NaN

\* a - b
FSub(a, b) == FAdd(a, FNeg(b))

\* 2 * a
FTwice(a) == FAdd(a, a)

\* a / b with the divide and invalid warnings ignored: x/0 is +-inf, 0/0 is NaN
FDiv(a, b) ==
    IF IsNaN(a) \/ IsNaN(b) THEN NaN
    ELSE IF IsFin(a) /\ IsFin(b)
         THEN IF b.n = 0
              THEN IF a.n = 0 THEN NaN ELSE Inf(Sign(a.n))
              ELSE Fin(a.n * b.d, a.d * b.n)
    ELSE IF IsFin(b) THEN Inf(a.n * (IF b.n < 0 THEN 0 - 1 ELSE 1))
    ELSE IF IsFin(a) THEN Fin(0, 1)
    ELSE NaN

\* a > b for a finite or infinite a and a finite b (a comparison with NaN is False)
FGreater(a, b) ==
    IF IsNaN(a) \/ IsNaN(b) THEN FALSE
    ELSE IF IsFin(a) THEN a.n * b.d > b.n * a.d
    ELSE a.n > 0

FLess(a, b) ==
    IF IsNaN(a) \/ IsNaN(b) THEN FALSE
    ELSE IF IsFin(a) THEN a.n * b.d < b.n * a.d
    ELSE a.n < 0

\* np.clip(a, lo, hi) on one element: minimum(maximum(a, lo), hi); NaN stays NaN
ClipLoose(a, lo, hi) == IF FLess(a, lo) THEN lo ELSE a
Clip(a, lo, hi) ==
    IF IsNaN(a) THEN a
    ELSE IF FLess(a, lo) THEN lo
    ELSE IF FGreater(a, hi) THEN hi
    ELSE a

\* np.nan_to_num(a, nan=0.0) on one element: NaN to 0, +-inf to +-FLT_MAX
NanToNum(a) ==
    IF IsNaN(a) THEN Fin(0, 1)
    ELSE IF a.k = "inf" THEN Big(a.n)
    ELSE a

ClipUnit(a) == Clip(a, Fin(0 - 1, 1), Fin(1, 1))

\* one element of each index
NdviPx(red, nir) == ClipUnit(FDiv(FSub(nir, red), FAdd(nir, red)))
NdbiPx(nir, swir) == ClipUnit(FDiv(FSub(swir, nir), FAdd(swir, nir)))
ExgPx(red, green, blue) ==
    NanToNum(FDiv(FSub(FSub(FTwice(green), red), blue),
                  FAdd(FAdd(red, green), blue)))
VariPx(red, green, blue) ==
    ClipUnit(FDiv(FSub(green, red), FSub(FAdd(green, red), blue)))

\* NDVI: clip((nir - red) / (nir + red), -1, 1), element-wise
Ndvi(red, nir) == [i \in 1..Len(red) |-> NdviPx(red[i], nir[i])]

\* NDBI: clip((swir - nir) / (swir + nir), -1, 1)
Ndbi(nir, swir) == [i \in 1..Len(nir) |-> NdbiPx(nir[i], swir[i])]

\* ExG: nan_to_num((2*green - red - blue) / (red + green + blue), nan=0.0)
Exg(red, green, blue) == [i \in 1..Len(red) |-> ExgPx(red[i], green[i], blue[i])]

\* VARI: clip((green - red) / (green + red - blue), -1, 1)
Vari(red, green, blue) == [i \in 1..Len(red) |-> VariPx(red[i], green[i], blue[i])]

(***************************************************************************)
(* Raster files.  data[b] is band b in row-major order; only the bands the *)
(* program can read (1..NumBands) are kept.  A corrupt file makes every    *)
(* rasterio.open raise RasterioIOError.                                    *)
(***************************************************************************)
Min2(a, b) == IF a < b THEN a ELSE b
Min3(a, b, c) == Min2(a, Min2(b, c))

MkFile(name, width, height, count, hasNodata, nodata, data, corrupt) ==
    [name |-> name, width |-> width, height |-> height, count |-> count,
     hasNodata |-> hasNodata, nodata |-> nodata, data |-> data,
     corrupt |-> corrupt]

\* the centered square window of compute_indices
WindowOffCenter(width, height, window_size) ==
    LET s == Min3(window_size, width, height)
    IN  [x_off |-> width - s, y_off |-> height - s, size |-> s]
Window(width, height, window_size) ==
    LET s == Min3(window_size, width, height)
    IN  [x_off |-> (width - s) \div 2, y_off |-> (height - s) \div 2, size |-> s]

\* src.read(idx, window=window).astype(float32), no-data pixels set to NaN
ReadBand(f, idx, w) ==
    [i \in 1..(w.size * w.size) |->
        LET r == (i - 1) \div w.size
            c == (i - 1) % w.size
            v == f.data[idx][(w.y_off + r) * f.width + (w.x_off + c) + 1]
        IN  IF f.hasNodata /\ v = f.nodata THEN NaN ELSE Fin(v, 1)]

\* how many bands must have been read for an index's bands to be present
NeedsSwirForNdvi(key) == IF key = "ndvi" THEN 5 ELSE IF key = "ndbi" THEN 5 ELSE 3
Needs(key) == IF key = "ndvi" THEN 4 ELSE IF key = "ndbi" THEN 5 ELSE 3

ComputeIndex(key, b) ==
    IF key = "ndvi" THEN Ndvi(b[1], b[4])
    ELSE IF key = "ndbi" THEN Ndbi(b[4], b[5])
    ELSE IF key = "exg" THEN Exg(b[1], b[2], b[3])
    ELSE Vari(b[1], b[2], b[3])

NoIndices == [k \in KeySet |-> None]

\* np.all(np.isnan(arr))
AllNaN(arr) == \A i \in 1..Len(arr) : IsNaN(arr[i])

(***************************************************************************)
(* The inputs.                                                             *)
(***************************************************************************)
PixVals == MinPix..MaxPix

\* one-pixel rasters with all five bands, every combination of pixel values
OnePixelFiles ==
    { MkFile("p.img", 1, 1, NumBands, nd, 0, [b \in 1..NumBands |-> <<v[b]>>], FALSE) :
        v \in [1..NumBands -> PixVals], nd \in BOOLEAN }

\* rasters of every shape and band count, pixels following a fixed pattern
PatternPixel(b, x, y) == ((b * (x + 1) + y) % 3) - 1
ShapedFiles ==
    { MkFile("s.img", w, h, c, TRUE, 0,
             [b \in 1..Min2(c, NumBands) |->
                 [i \in 1..(w * h) |-> PatternPixel(b, (i - 1) % w, (i - 1) \div w)]],
             cr) :
        w \in 1..MaxDim, h \in 1..MaxDim, c \in 0..MaxCount, cr \in {FALSE} }

CorruptFile == MkFile("bad.img", 1, 1, 0, FALSE, 0, <<>>, TRUE)

\* the files a user of the dashboard uploads: bands are red, green, blue, nir, swir
UploadA == MkFile("a.img", 2, 2, 4, FALSE, 0,
                  << <<0, 0, 1, 0>>, <<1, 1, 1, 1>>, <<0, 1, 0, 1>>, <<0, 1, 0, 1>> >>, FALSE)
UploadB == MkFile("b.img", 2, 2, 4, FALSE, 0,
                  << <<0, 1, 0, 0>>, <<1, 0, 1, 1>>, <<1, 1, 0, 0>>, <<1, 0, 1, 0>> >>, FALSE)
UploadRgb == MkFile("rgb.img", 1, 1, 3, FALSE, 0, << <<1>>, <<2>>, <<1>> >>, FALSE)
UploadHole == MkFile("hole.img", 1, 1, 5, TRUE, 0,
                     << <<1>>, <<2>>, <<1>>, <<0>>, <<1>> >>, FALSE)
UploadWide == MkFile("wide.img", 3, 3, 3, FALSE, 0,
                     << <<1, 1, 1, 1, 1, 1, 1, 1, 1>>, <<2, 2, 2, 2, 0, 2, 2, 2, 2>>,
                        <<1, 1, 1, 1, 1, 1, 1, 1, 1>> >>, FALSE)
UploadWide4 == MkFile("wide4.img", 3, 3, 4, FALSE, 0,
                      << <<1, 1, 1, 1, 1, 1, 1, 1, 1>>, <<2, 2, 2, 2, 0, 2, 2, 2, 2>>,
                         <<1, 1, 1, 1, 1, 1, 1, 1, 1>>, <<0, 1, 0, 1, 0, 1, 0, 1, 0>> >>, FALSE)
Uploads == {UploadA, UploadB, UploadRgb, UploadHole, UploadWide, UploadWide4, CorruptFile}

WindowSizes == (1..MaxWin) \cup {DefaultWindowSize}

Transforms == { <<a, b, c, d, e, f>> :
                  a \in {1, 2}, b \in {0, 3}, c \in {0, 5},
                  d \in {0, 7}, e \in {0 - 1, 0 - 2}, f \in {0, 9} }

(***************************************************************************)
(* State.                                                                  *)
(***************************************************************************)
VARIABLES
    entry,        \* the function the run calls
    env,          \* "reliable": only a corrupt file makes a call raise; "faulty": any call may
    file,         \* the raster at the path being opened
    retries,      \* rasterio_open_with_retry: its retries argument
    gpc,          \* rasterio_open_with_retry: position of the generator
    attempt,      \* rasterio_open_with_retry: the loop variable
    throwing,     \* rasterio_open_with_retry: resumed by an exception thrown at the yield
    opens,        \* rasterio.open calls made by this call
    waits,        \* time.sleep(1) calls made by this call
    handles,      \* the handles this call opened, each "open" or "closed"
    blk,          \* the with block: none, running, normal, or the exception it raised
    wres,         \* how the with statement ended: none, ok, or the exception it raised
    window_size,  \* compute_indices: its window_size argument
    cpc,          \* compute_indices: position
    idx,          \* compute_indices: band loop variable
    win,          \* compute_indices: the window
    bands,        \* compute_indices: the bands read so far, in order
    indices,      \* compute_indices: the indices dict
    printed,      \* messages printed by the except clauses
    uploaded,     \* dashboard: the file in each upload slot, or None
    slot,         \* dashboard: the slot being analyzed
    apc,          \* analyze_image: position
    kidx,         \* position in Keys of the loops over the four index keys
    tmpfile,      \* analyze_image: whether each slot's temporary file exists
    result,       \* analyze_image: the result dict being built
    image_data,   \* dashboard: image_data_1 and image_data_2
    dpc,          \* dashboard: position of the script
    panels,       \* dashboard: what display_image_analysis rendered per slot
    section,      \* dashboard: whether the Change Detection section is shown
    change,       \* dashboard: what each change tab rendered
    pageError,    \* dashboard: an exception ended the script run
    button,       \* dashboard: what st.button("Analyze Changes") returned in this run
    job,          \* downsample_large_image: source width, height, transform and scale
    profile       \* downsample_large_image: the output profile

genVars == <<retries, gpc, attempt, throwing, opens, waits, handles, blk, wres>>
ciVars == <<window_size, cpc, idx, win, bands, indices>>
aiVars == <<slot, apc, tmpfile, result, image_data>>
dashVars == <<uploaded, dpc, panels, section, change, pageError, button>>
dsVars == <<job, profile>>
vars == <<entry, env, file, genVars, ciVars, printed, kidx, aiVars, dashVars, dsVars>>

NoWindow == [x_off |-> 0, y_off |-> 0, size |-> 0]
NoResult == [filename |-> "", path |-> 0, arrays |-> NoIndices]
NoChange == [k \in KeySet |-> [kind |-> "none", veg |-> None]]
NoJob == [width |-> 0, height |-> 0, scale |-> 0, transform |-> <<>>]
NoProfile == [width |-> 0, height |-> 0, transform |-> <<>>]

NoFile == MkFile("", 0, 0, 0, FALSE, 0, <<>>, FALSE)

\* what is the same at the start of every run
Idle ==
    /\ attempt = 0 /\ throwing = FALSE
    /\ opens = 0 /\ waits = 0 /\ handles = <<>> /\ blk = "none" /\ wres = "none"
    /\ idx = 0 /\ win = NoWindow /\ bands = <<>>
    /\ indices = NoIndices /\ printed = {} /\ kidx = 0
    /\ slot = 0 /\ apc = "idle" /\ tmpfile = [s \in 1..2 |-> FALSE]
    /\ result = NoResult /\ image_data = [s \in 1..2 |-> None]
    /\ panels = [s \in 1..2 |-> None] /\ section = FALSE
    /\ change = NoChange /\ pageError = FALSE /\ button = FALSE
    /\ profile = NoProfile

\* a call rasterio_open_with_retry(path, retries) around a block of the caller's
InitOpen ==
    /\ Idle
    /\ entry = "rasterio_open_with_retry"
    /\ env \in {"reliable", "faulty"}
    /\ file \in {CorruptFile, UploadRgb}
    /\ retries \in 0..MaxRetries
    /\ gpc = "start" /\ cpc = "idle" /\ dpc = "idle"
    /\ window_size = DefaultWindowSize
    /\ uploaded = [s \in 1..2 |-> None] /\ job = NoJob

\* a call compute_indices(image_path, window_size)
InitCompute ==
    /\ Idle
    /\ entry = "compute_indices"
    /\ \/ /\ env = "reliable"
          /\ file \in OnePixelFiles
          /\ window_size = DefaultWindowSize
       \/ /\ env = "faulty"
          /\ file \in ShapedFiles \cup {CorruptFile}
          /\ window_size \in WindowSizes
    /\ retries = DefaultRetries
    /\ gpc = "idle" /\ cpc = "start" /\ dpc = "idle"
    /\ uploaded = [s \in 1..2 |-> None] /\ job = NoJob

\* one run of the dashboard script with the two upload slots as the user left them
InitDashboard ==
    /\ Idle
    /\ entry = "dashboard"
    /\ env = "faulty"
    /\ file = NoFile
    /\ uploaded \in [1..2 -> {None} \cup {Some(f) : f \in Uploads}]
    /\ retries = DefaultRetries /\ window_size = DefaultWindowSize
    /\ gpc = "idle" /\ cpc = "idle" /\ dpc = "slot"
    /\ job = NoJob

\* a call downsample_large_image(input_path, output_path, scale)
InitDownsample ==
    /\ Idle
    /\ entry = "downsample_large_image"
    /\ env = "reliable"
    /\ file = NoFile
    /\ job \in [width : 1..MaxDim, height : 1..MaxDim, scale : 1..MaxScale,
                transform : Transforms]
    /\ retries = DefaultRetries /\ window_size = DefaultWindowSize
    /\ gpc = "idle" /\ cpc = "idle" /\ dpc = "idle"
    /\ uploaded = [s \in 1..2 |-> None]

Init == InitOpen \/ InitCompute \/ InitDashboard \/ InitDownsample

(***************************************************************************)
(* rasterio_open_with_retry, a generator under @contextmanager.            *)
(***************************************************************************)
\* what rasterio.open(path) can do
OpenOutcomes ==
    IF file.corrupt THEN {"RasterioIOError"}
    ELSE IF env = "faulty" THEN {"ok", "RasterioIOError", "Other"}
    ELSE {"ok"}

\* the generator ends by raising exc (or by returning, "ok") into the with statement
GenEnds(how) == gpc' = "done" /\ wres' = how

\* the for loop starts; with no iteration the generator returns without a yield
\* and @contextmanager raises RuntimeError("generator didn't yield")
GenStart ==
    /\ gpc = "start"
    /\ attempt' = 0
    /\ IF retries = 0
       THEN GenEnds("RuntimeError")
       ELSE gpc' = "open" /\ wres' = wres
    /\ UNCHANGED <<retries, throwing, opens, waits, handles, blk>>
    /\ UNCHANGED <<entry, env, file, ciVars, printed, kidx, aiVars, dashVars, dsVars>>

\* whether a failed attempt is the one that re-raises
LastAttemptOffByOne(a, r) == a = r
LastAttempt(a, r) == a = r - 1

\* src = rasterio.open(path) and what follows it up to the yield, the raise or the sleep
OpenAttempt(outcome) ==
    /\ gpc = "open"
    /\ outcome \in OpenOutcomes
    /\ opens' = opens + 1
    /\ IF outcome = "ok"
       THEN /\ handles' = Append(handles, "open")
            /\ IF throwing
               \* a second yield after throw(): RuntimeError("generator didn't stop
               \* after throw()"); the generator is dropped at the yield
               THEN GenEnds("RuntimeError") /\ blk' = blk
               ELSE gpc' = "yielded" /\ blk' = "running" /\ wres' = wres
       ELSE /\ handles' = handles /\ blk' = blk
            /\ IF outcome = "RasterioIOError"
               THEN IF LastAttempt(attempt, retries)
                    THEN GenEnds("RasterioIOError")
                    ELSE gpc' = "sleep" /\ wres' = wres
               ELSE GenEnds("Other")
    /\ UNCHANGED <<retries, attempt, throwing, waits>>
    /\ UNCHANGED <<entry, env, file, ciVars, printed, kidx, aiVars, dashVars, dsVars>>

\* time.sleep(1), then the next iteration of the for loop
Sleep ==
    /\ gpc = "sleep"
    /\ waits' = waits + 1
    /\ attempt' = attempt + 1
    /\ gpc' = "open"
    /\ UNCHANGED <<retries, throwing, opens, handles, blk, wres>>
    /\ UNCHANGED <<entry, env, file, ciVars, printed, kidx, aiVars, dashVars, dsVars>>

\* the handles after src.close()
CloseLast(h) == [h EXCEPT ![Len(h)] = "closed"]

\* the block ended normally: the generator resumes after the yield, closes, breaks
GenResume ==
    /\ gpc = "yielded" /\ blk = "normal"
    /\ handles' = CloseLast(handles)
    /\ GenEnds("ok")
    /\ UNCHANGED <<retries, attempt, throwing, opens, waits, blk>>
    /\ UNCHANGED <<entry, env, file, ciVars, printed, kidx, aiVars, dashVars, dsVars>>

\* the block raised: the exception is thrown into the generator at the yield;
\* src.close() is skipped, and a RasterioIOError is treated as a failed attempt
GenThrow ==
    /\ gpc = "yielded" /\ blk \in {"RasterioIOError", "Other"}
    /\ IF blk = "RasterioIOError"
       THEN IF LastAttempt(attempt, retries)
            THEN GenEnds("RasterioIOError") /\ throwing' = throwing
            ELSE gpc' = "sleep" /\ throwing' = TRUE /\ wres' = wres
       ELSE GenEnds("Other") /\ throwing' = throwing
    /\ UNCHANGED <<retries, attempt, opens, waits, handles, blk>>
    /\ UNCHANGED <<entry, env, file, ciVars, printed, kidx, aiVars, dashVars, dsVars>>

\* the caller's block of a direct call: it ends normally or raises
BlockRun(outcome) ==
    /\ entry = "rasterio_open_with_retry"
    /\ gpc = "yielded" /\ blk = "running"
    /\ outcome \in {"normal", "RasterioIOError", "Other"}
    /\ blk' = outcome
    /\ UNCHANGED <<retries, gpc, attempt, throwing, opens, waits, handles, wres>>
    /\ UNCHANGED <<entry, env, file, ciVars, printed, kidx, aiVars, dashVars, dsVars>>

(***************************************************************************)
(* compute_indices                                                         *)
(***************************************************************************)
\* what src.read and the array arithmetic can do
CallOutcomes == IF env = "faulty" THEN {"ok", "RasterioIOError", "Other"} ELSE {"ok"}
CalcOutcomes == IF env = "faulty" THEN {"ok", "Other"} ELSE {"ok"}

\* indices = {...all None...}; the with statement calls rasterio_open_with_retry(image_path)
CI_Start ==
    /\ cpc = "start"
    /\ indices' = NoIndices
    /\ bands' = <<>> /\ idx' = 0 /\ win' = NoWindow
    /\ cpc' = "with"
    /\ retries' = DefaultRetries
    /\ gpc' = "start" /\ attempt' = 0 /\ throwing' = FALSE
    /\ opens' = 0 /\ waits' = 0 /\ handles' = <<>>
    /\ blk' = "none" /\ wres' = "none"
    /\ UNCHANGED <<entry, env, file, window_size, printed, kidx, aiVars, dashVars, dsVars>>

\* the block starts: width, height, the clamped window_size, the offsets, the Window
CI_Window ==
    /\ cpc = "with" /\ gpc = "yielded" /\ blk = "running"
    /\ win' = Window(file.width, file.height, window_size)
    /\ idx' = 1
    /\ cpc' = "read"
    /\ UNCHANGED <<window_size, bands, indices>>
    /\ UNCHANGED <<entry, env, file, genVars, printed, kidx, aiVars, dashVars, dsVars>>

\* one iteration of the loop over the five band names
CI_Read(outcome) ==
    /\ cpc = "read" /\ blk = "running"
    /\ outcome \in (IF idx <= file.count THEN CallOutcomes ELSE {"ok"})
    /\ IF outcome = "ok"
       THEN /\ bands' = IF idx <= file.count
                        THEN Append(bands, ReadBand(file, idx, win))
                        ELSE bands
            /\ IF idx = NumBands
               THEN cpc' = "calc" /\ kidx' = 1 /\ idx' = idx
               ELSE cpc' = cpc /\ kidx' = kidx /\ idx' = idx + 1
            /\ blk' = blk
       ELSE /\ blk' = outcome
            /\ cpc' = "with"
            /\ UNCHANGED <<bands, kidx, idx>>
    /\ UNCHANGED <<window_size, win, indices>>
    /\ UNCHANGED <<retries, gpc, attempt, throwing, opens, waits, handles, wres>>
    /\ UNCHANGED <<entry, env, file, printed, aiVars, dashVars, dsVars>>

\* one of the four index computations, in the order NDVI, NDBI, ExG, VARI
CI_Calc(outcome) ==
    /\ cpc = "calc" /\ blk = "running"
    /\ LET key == Keys[kidx]
           has == Len(bands) >= Needs(key)
       IN  /\ outcome \in (IF has THEN CalcOutcomes ELSE {"ok"})
           /\ IF outcome = "ok"
              THEN /\ indices' = IF has
                                 THEN [indices EXCEPT ![key] = Some(ComputeIndex(key, bands))]
                                 ELSE indices
                   /\ IF kidx = Len(Keys)
                      THEN cpc' = "with" /\ blk' = "normal" /\ kidx' = kidx
                      ELSE cpc' = cpc /\ blk' = blk /\ kidx' = kidx + 1
              ELSE /\ blk' = outcome
                   /\ cpc' = "with"
                   /\ UNCHANGED <<indices, kidx>>
    /\ UNCHANGED <<window_size, idx, win, bands>>
    /\ UNCHANGED <<retries, gpc, attempt, throwing, opens, waits, handles, wres>>
    /\ UNCHANGED <<entry, env, file, printed, aiVars, dashVars, dsVars>>

\* the with statement is over: except logs, finally collects garbage, and the
\* indices dict is returned as the block left it
CI_Return ==
    /\ cpc = "with" /\ wres # "none"
    /\ printed' = IF wres = "ok" THEN printed ELSE printed \cup {"Error computing indices"}
    /\ cpc' = "returned"
    /\ UNCHANGED <<window_size, idx, win, bands, indices>>
    /\ UNCHANGED <<entry, env, file, genVars, kidx, aiVars, dashVars, dsVars>>

(***************************************************************************)
(* analyze_image, called by the dashboard's load_and_analyze_image          *)
(***************************************************************************)
\* the script goes on after a slot's load_and_analyze_image
AfterSlot(s) == IF s = 2 THEN "display" ELSE "slot"

\* load_and_analyze_image(None): no file in the slot
LoadNone ==
    /\ dpc = "slot" /\ apc = "idle" /\ slot < 2
    /\ IsNone(uploaded[slot + 1])
    /\ slot' = slot + 1
    /\ image_data' = [image_data EXCEPT ![slot + 1] = None]
    /\ dpc' = AfterSlot(slot + 1)
    /\ UNCHANGED <<apc, tmpfile, result, uploaded, panels, section, change, pageError, button>>
    /\ UNCHANGED <<entry, env, file, genVars, ciVars, printed, kidx, dsVars>>

\* @st.cache_data: the second slot holds the file the first slot was analyzed for,
\* and the memoized return value is used
LoadCached ==
    /\ dpc = "slot" /\ apc = "idle" /\ slot = 1
    /\ ~IsNone(uploaded[2]) /\ uploaded[2] = uploaded[1]
    /\ slot' = 2
    /\ image_data' = [image_data EXCEPT ![2] = image_data[1]]
    /\ dpc' = AfterSlot(2)
    /\ UNCHANGED <<apc, tmpfile, result, uploaded, panels, section, change, pageError, button>>
    /\ UNCHANGED <<entry, env, file, genVars, ciVars, printed, kidx, dsVars>>

\* analyze_image(uploaded_file): the upload is written to a temporary file and
\* compute_indices(path) is called
AnalyzeStart ==
    /\ dpc = "slot" /\ apc = "idle" /\ slot < 2
    /\ ~IsNone(uploaded[slot + 1])
    /\ slot = 1 => uploaded[2] # uploaded[1]
    /\ slot' = slot + 1
    /\ tmpfile' = [tmpfile EXCEPT ![slot + 1] = TRUE]
    /\ file' = Val(uploaded[slot + 1])
    /\ window_size' = DefaultWindowSize
    /\ cpc' = "start"
    /\ apc' = "compute"
    /\ UNCHANGED <<idx, win, bands, indices>>
    /\ UNCHANGED <<result, image_data, dashVars>>
    /\ UNCHANGED <<entry, env, genVars, printed, kidx, dsVars>>

\* compute_indices returned: result = {'filename': ..., 'path': path}; the
\* temporary path of a slot's call is named by the slot's number
AnalyzeResult ==
    /\ apc = "compute" /\ cpc = "returned"
    /\ result' = [filename |-> file.name, path |-> slot, arrays |-> NoIndices]
    /\ kidx' = 1
    /\ apc' = "collect"
    /\ cpc' = "idle"
    /\ UNCHANGED <<window_size, idx, win, bands, indices>>
    /\ UNCHANGED <<slot, tmpfile, image_data, dashVars>>
    /\ UNCHANGED <<entry, env, file, genVars, printed, dsVars>>

\* one iteration of the loop over indices.items(): an array that is present and
\* not all NaN is kept and plotted; after the last one the result is returned.
\* An exception (plot_single_index raising) is logged, the temporary file is
\* unlinked and None is returned.
AnalyzeCollect(outcome) ==
    /\ apc = "collect"
    /\ LET key == Keys[kidx]
           arr == indices[key]
           keep == ~IsNone(arr) /\ ~AllNaN(Val(arr))
           res == IF keep THEN [result EXCEPT !.arrays[key] = arr] ELSE result
       IN  /\ outcome \in (IF keep THEN CalcOutcomes ELSE {"ok"})
           /\ IF outcome = "ok"
              THEN /\ result' = res
                   /\ IF kidx = Len(Keys)
                      THEN /\ image_data' = [image_data EXCEPT ![slot] = Some(res)]
                           /\ apc' = "idle" /\ dpc' = AfterSlot(slot) /\ kidx' = kidx
                      ELSE /\ kidx' = kidx + 1
                           /\ UNCHANGED <<image_data, apc, dpc>>
                   /\ UNCHANGED <<printed, tmpfile>>
              ELSE /\ printed' = printed \cup {"Error analyzing"}
                   /\ tmpfile' = [tmpfile EXCEPT ![slot] = FALSE]
                   /\ image_data' = [image_data EXCEPT ![slot] = None]
                   /\ apc' = "idle" /\ dpc' = AfterSlot(slot)
                   /\ UNCHANGED <<result, kidx>>
    /\ UNCHANGED <<slot, uploaded, panels, section, change, pageError, button>>
    /\ UNCHANGED <<entry, env, file, genVars, ciVars, dsVars>>

(***************************************************************************)
(* The dashboard script after the two uploads                              *)
(***************************************************************************)
\* display_image_analysis: no panel for a falsy image_data; else one tab per key,
\* a plot for a present array and a warning for an absent one
Panel(data) ==
    IF IsNone(data) THEN None
    ELSE Some([k \in KeySet |->
                 IF IsNone(Val(data).arrays[k]) THEN "warning" ELSE "plot"])

Display ==
    /\ dpc = "display"
    /\ panels' = [s \in 1..2 |-> Panel(image_data[s])]
    /\ dpc' = "change"
    /\ UNCHANGED <<uploaded, section, change, pageError, button>>
    /\ UNCHANGED <<entry, env, file, genVars, ciVars, printed, kidx, aiVars, dsVars>>

\* numpy broadcasting of two square windows: the shapes must be equal, or one of
\* them a single pixel, which is then repeated
Broadcastable(a, b) == Len(a) = Len(b) \/ Len(a) = 1 \/ Len(b) = 1
Elem(a, i) == IF Len(a) = 1 THEN a[1] ELSE a[i]
BroadcastLen(a, b) == IF Len(a) > Len(b) THEN Len(a) ELSE Len(b)

Threshold == Fin(1, 5)
Count(S) == Cardinality(S)

\* the NDVI branch of the change detection
VegChange(before, after) ==
    LET n == BroadcastLen(before, after)
        before_veg(i) == FGreater(Elem(before, i), Threshold)
        after_veg(i) == FGreater(Elem(after, i), Threshold)
        total_pixels == Count({i \in 1..n :
                                 ~IsNaN(Elem(before, i)) /\ ~IsNaN(Elem(after, i))})
        gain == Count({i \in 1..n : after_veg(i) /\ ~before_veg(i)})
        loss == Count({i \in 1..n : before_veg(i) /\ ~after_veg(i)})
    IN  [gain |-> gain, loss |-> loss, total_pixels |-> total_pixels,
         gain_pct |-> IF total_pixels # 0 THEN Fin(gain * 100, total_pixels) ELSE Fin(0, 1),
         loss_pct |-> IF total_pixels # 0 THEN Fin(loss * 100, total_pixels) ELSE Fin(0, 1)]

\* one change tab: metrics and a change map when both images have the key, else an info
ChangeTab(key, d1, d2) ==
    LET before == d1.arrays[key]
        after == d2.arrays[key]
    IN  IF ~IsNone(before) /\ ~IsNone(after)
        THEN [kind |-> "stats",
              veg |-> IF key = "ndvi" THEN Some(VegChange(Val(before), Val(after)))
                      ELSE None]
        ELSE [kind |-> "info", veg |-> None]

\* after - before raises ValueError for arrays that cannot be broadcast
TabRaises(key, d1, d2) ==
    /\ ~IsNone(d1.arrays[key]) /\ ~IsNone(d2.arrays[key])
    /\ ~Broadcastable(Val(d1.arrays[key]), Val(d2.arrays[key]))

\* the Change Detection section: shown when both image_data are truthy, filled
\* in when the button was pressed, one tab after the other up to the first tab
\* that raises
Change(pressed) ==
    /\ dpc = "change"
    /\ pressed \in BOOLEAN
    /\ LET both == ~IsNone(image_data[1]) /\ ~IsNone(image_data[2])
           d1 == Val(image_data[1])
           d2 == Val(image_data[2])
           raising == {i \in 1..Len(Keys) : TabRaises(Keys[i], d1, d2)}
           done == {i \in 1..Len(Keys) : \A j \in raising : i < j}
       IN  /\ pressed => both
           /\ section' = both
           /\ change' = IF both /\ pressed
                        THEN [k \in KeySet |->
                                IF \E i \in done : Keys[i] = k
                                THEN ChangeTab(k, d1, d2)
                                ELSE change[k]]
                        ELSE change
           /\ pageError' = (both /\ pressed /\ raising # {})
           /\ button' = pressed
    /\ dpc' = "done"
    /\ UNCHANGED <<uploaded, panels>>
    /\ UNCHANGED <<entry, env, file, genVars, ciVars, printed, kidx, aiVars, dsVars>>

(***************************************************************************)
(* downsample_large_image: the output profile                              *)
(***************************************************************************)
OutTransformScaleAll(t, scale) ==
    <<t[1] * scale, t[2] * scale, t[3], t[4] * scale, t[5] * scale, t[6]>>
OutTransform(t, scale) == <<t[1] * scale, t[2], t[3], t[4], t[5] * scale, t[6]>>

OutSize(size, scale) == size \div scale

Downsample ==
    /\ entry = "downsample_large_image"
    /\ profile = NoProfile
    /\ profile' = [width |-> OutSize(job.width, job.scale),
                   height |-> OutSize(job.height, job.scale),
                   transform |-> OutTransform(job.transform, job.scale)]
    /\ UNCHANGED job
    /\ UNCHANGED <<entry, env, file, genVars, ciVars, printed, kidx, aiVars, dashVars>>

(***************************************************************************)
(* Specification                                                           *)
(***************************************************************************)
Next ==
    \/ GenStart
    \/ \E o \in {"ok", "RasterioIOError", "Other"} : OpenAttempt(o)
    \/ Sleep
    \/ GenResume
    \/ GenThrow
    \/ \E o \in {"normal", "RasterioIOError", "Other"} : BlockRun(o)
    \/ CI_Start
    \/ CI_Window
    \/ \E o \in {"ok", "RasterioIOError", "Other"} : CI_Read(o)
    \/ \E o \in {"ok", "Other"} : CI_Calc(o)
    \/ CI_Return
    \/ LoadNone
    \/ LoadCached
    \/ AnalyzeStart
    \/ AnalyzeResult
    \/ \E o \in {"ok", "Other"} : AnalyzeCollect(o)
    \/ Display
    \/ \E pressed \in BOOLEAN : Change(pressed)
    \/ Downsample

Spec == Init /\ [][Next]_vars

(***************************************************************************)
(* Properties                                                              *)
(***************************************************************************)
\* the call of rasterio_open_with_retry that is over is the current one
CallOver ==
    /\ gpc = "done"
    /\ entry = "rasterio_open_with_retry" \/ cpc \in {"with", "returned"}

\* the first slot's analyze_image has returned and the second has not started
FirstAnalysisOver == entry = "dashboard" /\ slot = 1 /\ apc = "idle" /\ dpc = "slot"

\* C1: whenever the analysis of an uploaded file fails (an except clause logged
\* an error, as for a corrupt temporary file), analyze_image returns None and
\* the temporary file it created no longer exists.
C1_FailedAnalysisReturnsNone ==
    (FirstAnalysisOver /\ printed # {})
        => (IsNone(image_data[1]) /\ ~tmpfile[1])

\* C2: when the with statement around rasterio_open_with_retry is over (normally
\* or by an exception), every handle the call opened has been closed.
C2_EveryHandleClosed ==
    wres # "none" => \A i \in 1..Len(handles) : handles[i] = "closed"

\* C3: when every open attempt raises a raster-I/O failure, a call with
\* retries >= 1 makes exactly `retries` open attempts and `retries - 1` waits, one
\* after each failed attempt but the last, and ends by raising that failure.
AllOpensFailed == file.corrupt \/ (handles = <<>> /\ wres = "RasterioIOError")
C3_ExactlyRetriesAttempts ==
    /\ (CallOver /\ retries >= 1 /\ AllOpensFailed)
          => (wres = "RasterioIOError" /\ opens = retries /\ waits = retries - 1)
    /\ (file.corrupt /\ gpc = "open") => (waits = opens /\ opens < retries)
    /\ (file.corrupt /\ gpc = "sleep") => (opens = waits + 1 /\ opens < retries)

\* the default call on a corrupt file ended after 3 attempts and 2 waits
C3_Witness ==
    /\ CallOver /\ file.corrupt /\ entry = "compute_indices"
    /\ retries = 3 /\ opens = 3 /\ waits = 2 /\ wres = "RasterioIOError"

\* C4: when an exception occurred at any step of compute_indices, the dict it
\* returns has all four keys None.
C4_ErrorReturnsAllAbsent ==
    (cpc = "returned" /\ wres # "ok") => indices = NoIndices

\* C5: once the dashboard has displayed the slots, a slot whose file failed
\* analysis (a corrupt file) shows no analysis panel, and the page has not failed.
C5_FailedSlotShowsNoPanel ==
    \A s \in 1..2 :
        (dpc \in {"change", "done"} /\ uploaded[s] = Some(CorruptFile))
            => (IsNone(panels[s]) /\ ~pageError)

\* C6: in a run that logged no error, with gain and loss as the dashboard counts them, unchanged the pixels valid
\* in both NDVI arrays whose vegetation status (NDVI > 0.2) did not change, and
\* total the pixels valid in both: gain + loss + unchanged = total, and
\* gain% + loss% <= 100.
Unchanged(before, after) ==
    Cardinality({i \in 1..BroadcastLen(before, after) :
        /\ ~IsNaN(Elem(before, i)) /\ ~IsNaN(Elem(after, i))
        /\ FGreater(Elem(before, i), Fin(1, 5)) = FGreater(Elem(after, i), Fin(1, 5))})
C6_GainLossUnchangedPartition ==
    (printed = {} /\ ~IsNone(change["ndvi"].veg)) =>
        LET v == Val(change["ndvi"].veg)
            before == Val(Val(image_data[1]).arrays["ndvi"])
            after == Val(Val(image_data[2]).arrays["ndvi"])
        IN  /\ v.gain + v.loss + Unchanged(before, after) = v.total_pixels
            /\ ~FGreater(FAdd(v.gain_pct, v.loss_pct), Fin(100, 1))

\* C7: for a raster compute_indices read without error, ExG and VARI are present
\* iff the band count is >= 3, NDVI iff >= 4, NDBI iff >= 5.
C7_BandGating ==
    (cpc = "returned" /\ wres = "ok") =>
        /\ ~IsNone(indices["exg"]) <=> file.count >= 3
        /\ ~IsNone(indices["vari"]) <=> file.count >= 3
        /\ ~IsNone(indices["ndvi"]) <=> file.count >= 4
        /\ ~IsNone(indices["ndbi"]) <=> file.count >= 5

\* a red/green/blue raster came back with ExG and VARI and without NDVI and NDBI
C7_Witness ==
    /\ cpc = "returned" /\ wres = "ok" /\ file.count = 3
    /\ IsNone(indices["ndvi"]) /\ IsNone(indices["ndbi"])
    /\ ~IsNone(indices["exg"]) /\ ~IsNone(indices["vari"])

InUnit(p) == IsFin(p) /\ 0 - p.d <= p.n /\ p.n <= p.d
Clamped == {"ndvi", "ndbi", "vari"}

\* C8 as stated: every pixel of every present NDVI, NDBI and VARI array is a
\* value within [-1, 1].
C8_EveryPixelInUnit ==
    \A key \in Clamped :
        ~IsNone(indices[key]) =>
            \A i \in 1..Len(Val(indices[key])) : InUnit(Val(indices[key])[i])

\* C8 as amended: every pixel of every present NDVI, NDBI and VARI array is NaN
\* or a value within [-1, 1].
C8_EveryPixelNaNOrInUnit ==
    \A key \in Clamped :
        ~IsNone(indices[key]) =>
            \A i \in 1..Len(Val(indices[key])) :
                IsNaN(Val(indices[key])[i]) \/ InUnit(Val(indices[key])[i])

\* red = -1, green = 1, blue = -1, nir = 1, swir = -1: NDVI is 2/0, NDBI is -2/0
\* and VARI is 2/1, and they came back as 1, -1 and 1
C8_Witness ==
    /\ cpc = "returned" /\ wres = "ok" /\ Len(bands) = 5
    /\ bands[1] = <<Fin(0 - 1, 1)>> /\ bands[2] = <<Fin(1, 1)>>
    /\ bands[3] = <<Fin(0 - 1, 1)>> /\ bands[4] = <<Fin(1, 1)>>
    /\ bands[5] = <<Fin(0 - 1, 1)>>
    /\ indices["ndvi"] = Some(<<Fin(1, 1)>>)
    /\ indices["ndbi"] = Some(<<Fin(0 - 1, 1)>>)
    /\ indices["vari"] = Some(<<Fin(1, 1)>>)

\* C9: the window compute_indices reads is a square of side
\* s = min(window_size, width, height) at offsets (width - s) div 2 and
\* (height - s) div 2, and it lies inside the raster.
C9_WindowCenteredInside ==
    (cpc \in {"read", "calc", "with", "returned"} /\ win # NoWindow) =>
        LET s == win.size
            w == file.width
            h == file.height
        IN  /\ s <= window_size /\ s <= w /\ s <= h
            /\ s = window_size \/ s = w \/ s = h
            /\ 2 * win.x_off <= w - s /\ w - s <= 2 * win.x_off + 1
            /\ 2 * win.y_off <= h - s /\ h - s <= 2 * win.y_off + 1
            /\ win.x_off >= 0 /\ win.y_off >= 0
            /\ win.x_off + s <= w /\ win.y_off + s <= h

\* a 3 x 2 raster read with window_size 1: the window is the pixel at (1, 0)
C9_Witness ==
    /\ cpc = "read" /\ file.width = 3 /\ file.height = 2 /\ window_size = 1
    /\ win = [x_off |-> 1, y_off |-> 0, size |-> 1]

\* C10: the output profile has width W div S and height H div S; its transform
\* has the source's pixel-size terms multiplied by S and the source's
\* rotation/shear and origin terms.
C10_OutputProfile ==
    profile # NoProfile =>
        LET t == job.transform
            o == profile.transform
            S == job.scale
        IN  /\ S * profile.width <= job.width /\ job.width < S * (profile.width + 1)
            /\ S * profile.height <= job.height /\ job.height < S * (profile.height + 1)
            /\ o[1] = t[1] * S /\ o[5] = t[5] * S
            /\ o[2] = t[2] /\ o[4] = t[4]
            /\ o[3] = t[3] /\ o[6] = t[6]

\* a 3 x 2 raster downsampled by 2 is 1 x 1, with pixel sizes 2 and -1 become 4 and -2
C10_Witness ==
    /\ job.width = 3 /\ job.height = 2 /\ job.scale = 2
    /\ job.transform = <<2, 3, 5, 7, 0 - 1, 9>>
    /\ profile = [width |-> 1, height |-> 1, transform |-> <<4, 3, 5, 7, 0 - 2, 9>>]

\* C11: within one call, once an open attempt has succeeded and the handle was
\* handed to the block, no further open attempt and no wait happens, and a
\* raster-I/O failure raised in the block ends the with statement as a
\* raster-I/O failure.
C11_NoRetryAfterSuccess ==
    [][(handles # <<>> /\ handles' # <<>>) =>
          /\ opens' = opens
          /\ waits' = waits
          /\ (blk = "RasterioIOError" /\ wres = "none" /\ wres' # "none")
                => wres' = "RasterioIOError"]_vars

\* whether key has an array in both results
InBoth(key) ==
    /\ ~IsNone(image_data[1]) /\ ~IsNone(image_data[2])
    /\ ~IsNone(Val(image_data[1]).arrays[key])
    /\ ~IsNone(Val(image_data[2]).arrays[key])

\* C12 (first half): change statistics for a key are computed only once both
\* slots' analyses have completed with a result, the button was pressed, and
\* both results hold an array for the key.
C12_ComputedOnlyWhenGated ==
    \A k \in KeySet :
        change[k].kind = "stats"
            => (dpc = "done" /\ slot = 2 /\ apc = "idle" /\ button /\ InBoth(k))

\* C12: in any dashboard run, change statistics for a key are computed only
\* when both slots' analyses completed with a result, the button was pressed
\* and both results hold an array for the key; and when the button was pressed
\* with the key missing from either image, the key's tab shows the
\* informational message and nothing is computed for it (stated for runs in
\* which no analysis printed an error).
C12_ChangeGatedElseInfo ==
    /\ C12_ComputedOnlyWhenGated
    /\ \A k \in KeySet :
          (dpc = "done" /\ button /\ printed = {} /\ ~InBoth(k))
              => change[k] = [kind |-> "info", veg |-> None]
====
